---- MODULE Spec2Model ----
(***************************************************************************)
(* A model of the Mini-Search-Engine pipeline:                             *)
(*   crawler.py  - Crawler: frontier queue, visited set, robots.txt cache, *)
(*                 the pages table and the crawl loop;                     *)
(*   indexer.py  - Indexer: text preprocessing, build_index, save_index;   *)
(*   searcher.py - Searcher: index load, query preprocessing, search.      *)
(* Each stage has its own specification (SpecCrawl, SpecIndex, SpecSearch) *)
(* over the shared variables; the variables of the other stages stay at    *)
(* their initial values.  Further specifications look at one part closely: *)
(*   SpecCrawlFair - the crawl loop with its passes scheduled;             *)
(*   SpecTokenize  - one preprocessing call on a text;                     *)
(*   SpecSave      - save_index step by step next to a starting Searcher;  *)
(*   SpecStartup   - Searcher.__init__ and search on any index file.       *)
(***************************************************************************)
EXTENDS Integers, Sequences, FiniteSets, TLC

(***************************************************************************)
(* Bounds of the model.                                                    *)
(***************************************************************************)
NumHosts == 2
NumPaths == 2
MaxSeeds == 2
MaxLinks == 1
MaxPagesBound == 2

(***************************************************************************)
(* URLs.  A URL is <<host, path>>: urlparse(url) yields the scheme and     *)
(* netloc (the host here) and the rest.  Host 0 is no web host: NonHttp    *)
(* stands for an href that urljoin resolves to something not starting     *)
(* with "http" (mailto:, ...), BadHref for an href urljoin raises          *)
(* ValueError on ("http://[").                                             *)
(***************************************************************************)
Hosts == 1..NumHosts
Paths == 1..NumPaths
Urls == Hosts \X Paths
NonHttp == <<0, 1>>
BadHref == <<0, 2>>
Hrefs == Urls \cup {NonHttp, BadHref}

\* urljoin(url, link['href']) raises ValueError (urlsplit: Invalid IPv6 URL)
urljoin_raises(href) == href = BadHref

base_url(url) == url[1]

startswith_http(link) == link \in Urls

\* Sequences over S of length at most n.
SeqUpTo(S, n) == UNION {[1..k -> S] : k \in 0..n}

Range(s) == {s[i] : i \in DOMAIN s}

\* Page bodies the web may serve: a text and the hrefs of its <a> elements.
PageTexts == {<<"b">>, <<"c">>}
Htmls == [text : PageTexts, links : SeqUpTo(Hrefs, MaxLinks)]

\* soup.get_text(separator=' ', strip=True)
get_text(html) == html.text

\* [link['href'] for link in soup.find_all('a', href=True)]
find_all_links(html) == html.links

VARIABLES
    queue,          \* self.queue: deque of URLs
    visited_urls,   \* self.visited_urls
    robot_parsers,  \* self.robot_parsers: base_url -> parsed policy
    pages,          \* the pages table, rows in insertion order
    pages_crawled,  \* local counter of crawl()
    max_pages,      \* argument of crawl()
    pc,             \* position of the crawl run: "crawl" | "done"
    pages0,         \* the table as it was when the run started
    fetched,        \* URLs requests.get was called on in this run
    readLog,        \* per host, the outcomes of rp.read() in call order
    fetch_count,    \* per URL, the number of requests.get calls in this run
    last,           \* how the latest pass of the crawl loop ended: "none" |
                    \* "skipped" | "disallowed" | "request_exception" |
                    \* "bad_status" | "exception" | "completed"
    rows,           \* Indexer.build_index: rows = cursor.fetchall()
    row_i,          \* Indexer.build_index: number of rows taken from rows so far
    words,          \* Indexer.build_index: processed_words still to be indexed
    inverted_index, \* Indexer.inverted_index: dict word -> list of doc ids
    ipc,            \* position of the indexing run
    index_file,     \* content of the file at index_path
    file_exists,    \* whether there is a file at index_path
    index_file0,    \* content of the file before the indexer opened it
    observed,       \* what each read of index_path by a starting Searcher got
    searcher_index, \* Searcher.inverted_index, as loaded by Searcher.__init__
                    \* (in SpecStartup: the tagged value json.load returned)
    query,          \* the query text the search interface is given
    results,        \* what each search(query) call so far computed and returned
    raw_text,       \* the text a preprocessing call is given
    processed_words,\* what the preprocessing call returned
    tpc             \* which preprocessing call has run

crawlVars == <<queue, visited_urls, robot_parsers, pages, pages_crawled,
               max_pages, pc, pages0, fetched, readLog, fetch_count, last>>

indexVars == <<rows, row_i, words, inverted_index, ipc, index_file, searcher_index,
               file_exists, index_file0, observed>>

searchVars == <<query, results>>

tokVars == <<raw_text, processed_words, tpc>>

vars == <<crawlVars, indexVars, searchVars, tokVars>>

(***************************************************************************)
(* The pages table (crawler.py _create_database).                          *)
(*   id  INTEGER PRIMARY KEY AUTOINCREMENT                                 *)
(*   url TEXT UNIQUE NOT NULL                                              *)
(***************************************************************************)
Row(id, url, html) ==
    [id |-> id, url |-> url, html_content |-> html, text_content |-> get_text(html)]

StoredUrls(tbl) == {tbl[i].url : i \in DOMAIN tbl}

\* AUTOINCREMENT: one more than the largest id ever used.
NextId(tbl) == IF tbl = <<>> THEN 1 ELSE tbl[Len(tbl)].id + 1

\* The UNIQUE constraint on url: the INSERT raises sqlite3.IntegrityError.
IntegrityError(tbl, url) == url \in StoredUrls(tbl)

store_page_no_unique(tbl, url, html) ==
    Append(tbl, Row(NextId(tbl), url, html))

\* Crawler._store_page: INSERT and commit, or catch IntegrityError and print.
store_page(tbl, url, html) ==
    IF IntegrityError(tbl, url)
    THEN tbl
    ELSE Append(tbl, Row(NextId(tbl), url, html))

(***************************************************************************)
(* Crawler._can_fetch.  read is the outcome of rp.read() should it be      *)
(* called: it raised, or it parsed a policy allowing the paths in allow.   *)
(***************************************************************************)
Policies == SUBSET Paths
ReadOutcomes ==
    {[raised |-> TRUE, allow |-> {}]} \cup {[raised |-> FALSE, allow |-> p] : p \in Policies}

can_fetch_fail_open(parsers, url, read) ==
    LET b == base_url(url) IN
    IF b \notin DOMAIN parsers
    THEN IF read.raised
         THEN [ok |-> TRUE, parsers |-> parsers]
         ELSE [ok |-> url[2] \in read.allow, parsers |-> (b :> read.allow) @@ parsers]
    ELSE [ok |-> url[2] \in parsers[b], parsers |-> parsers]

can_fetch(parsers, url, read) ==
    LET b == base_url(url) IN
    IF b \notin DOMAIN parsers
    THEN IF read.raised
         THEN [ok |-> FALSE, parsers |-> parsers]
         ELSE [ok |-> url[2] \in read.allow, parsers |-> (b :> read.allow) @@ parsers]
    ELSE [ok |-> url[2] \in parsers[b], parsers |-> parsers]

\* rp.read() is called only when the host has no cached parser.
Logged(log, parsers, url, read) ==
    LET b == base_url(url) IN
    IF b \in DOMAIN parsers
    THEN log
    ELSE [log EXCEPT ![b] = Append(@, IF read.raised THEN "fail" ELSE "ok")]

(***************************************************************************)
(* Crawler.crawl                                                           *)
(***************************************************************************)
LoopCond_le == queue # <<>> /\ pages_crawled <= max_pages

\* while self.queue and pages_crawled < max_pages
LoopCond == queue # <<>> /\ pages_crawled < max_pages

\* for link in soup.find_all(...): absolute_link = urljoin(url, link['href']);
\* if absolute_link.startswith('http'): append.  A raising urljoin ends the loop.
RECURSIVE enqueue_links(_, _)
enqueue_links(q, links) ==
    IF links = <<>> THEN q
    ELSE IF urljoin_raises(Head(links)) THEN q
    ELSE enqueue_links(IF startswith_http(Head(links)) THEN Append(q, Head(links)) ELSE q,
                       Tail(links))

\* The link loop leaves through "except Exception".
links_raise(links) == \E i \in DOMAIN links : urljoin_raises(links[i])

popleft_peek(q) == q

\* self.queue.popleft(): the queue that remains
popleft(q) == Tail(q)

visited_add_never(visited, url) == visited

\* self.visited_urls.add(url)
visited_add(visited, url) == visited \cup {url}

\* How a pass that reached requests.get can end without storing the page:
\* "except requests.RequestException" ran, "status_code != 200: continue" ran,
\* or "except Exception" ran (BeautifulSoup or get_text raised).
FetchFailures == {"request_exception", "bad_status", "exception"}

\* No indexer and no searcher has run.
IndexIdle ==
    /\ rows = <<>>
    /\ row_i = 0
    /\ words = <<>>
    /\ inverted_index = <<>>
    /\ ipc = "idle"
    /\ index_file = <<>>
    /\ file_exists = FALSE
    /\ index_file0 = <<>>
    /\ observed = <<>>
    /\ searcher_index = <<>>

\* No query has been entered.
SearchIdle ==
    /\ query = <<>>
    /\ results = <<>>

\* No preprocessing call is under study.
TokIdle ==
    /\ raw_text = <<>>
    /\ processed_words = <<>>
    /\ tpc = "idle"

PriorStores ==
    {<<>>} \cup
    {<<Row(1, u, [text |-> t, links |-> <<>>])>> : u \in Urls, t \in PageTexts}

InitCrawl ==
    /\ queue \in SeqUpTo(Urls, MaxSeeds)
    /\ visited_urls = {}
    /\ robot_parsers = <<>>
    /\ pages \in PriorStores
    /\ pages0 = pages
    /\ pages_crawled = 0
    /\ max_pages \in -1..MaxPagesBound
    /\ pc = "crawl"
    /\ fetched = {}
    /\ readLog = [h \in Hosts |-> <<>>]
    /\ fetch_count = [u \in Urls |-> 0]
    /\ last = "none"
    /\ IndexIdle
    /\ SearchIdle
    /\ TokIdle

\* if url in self.visited_urls: continue
SkipVisited ==
    /\ pc = "crawl" /\ LoopCond
    /\ Head(queue) \in visited_urls
    /\ queue' = popleft(queue)
    /\ last' = "skipped"
    /\ UNCHANGED <<visited_urls, robot_parsers, pages, pages_crawled, max_pages,
                   pc, pages0, fetched, readLog, fetch_count, indexVars, searchVars,
                   tokVars>>

\* if not self._can_fetch(url): print(Disallowed); continue
Disallowed ==
    /\ pc = "crawl" /\ LoopCond
    /\ Head(queue) \notin visited_urls
    /\ \E read \in ReadOutcomes :
         LET url == Head(queue)
             r == can_fetch(robot_parsers, url, read)
         IN /\ ~r.ok
            /\ robot_parsers' = r.parsers
            /\ readLog' = Logged(readLog, robot_parsers, url, read)
    /\ queue' = popleft(queue)
    /\ last' = "disallowed"
    /\ UNCHANGED <<visited_urls, pages, pages_crawled, max_pages, pc, pages0, fetched,
                   fetch_count, indexVars, searchVars, tokVars>>

\* The fetch raised (requests.RequestException), the status was not 200, or
\* BeautifulSoup / get_text raised: nothing stored, nothing enqueued.
FetchFailed ==
    /\ pc = "crawl" /\ LoopCond
    /\ Head(queue) \notin visited_urls
    /\ \E read \in ReadOutcomes :
         LET url == Head(queue)
             r == can_fetch(robot_parsers, url, read)
         IN /\ r.ok
            /\ robot_parsers' = r.parsers
            /\ readLog' = Logged(readLog, robot_parsers, url, read)
            /\ visited_urls' = visited_add(visited_urls, url)
            /\ fetched' = fetched \cup {url}
            /\ fetch_count' = [fetch_count EXCEPT ![url] = @ + 1]
    /\ queue' = popleft(queue)
    /\ last' \in FetchFailures
    /\ UNCHANGED <<pages, pages_crawled, max_pages, pc, pages0, indexVars,
                   searchVars, tokVars>>

\* Status 200 and the page parsed: _store_page, pages_crawled += 1, enqueue links.
\* An href urljoin raises on ends the pass in "except Exception", after the store.
FetchStored ==
    /\ pc = "crawl" /\ LoopCond
    /\ Head(queue) \notin visited_urls
    /\ \E read \in ReadOutcomes, html \in Htmls :
         LET url == Head(queue)
             r == can_fetch(robot_parsers, url, read)
         IN /\ r.ok
            /\ robot_parsers' = r.parsers
            /\ readLog' = Logged(readLog, robot_parsers, url, read)
            /\ visited_urls' = visited_add(visited_urls, url)
            /\ fetched' = fetched \cup {url}
            /\ fetch_count' = [fetch_count EXCEPT ![url] = @ + 1]
            /\ pages' = store_page(pages, url, html)
            /\ queue' = enqueue_links(popleft(queue), find_all_links(html))
            /\ last' = IF links_raise(find_all_links(html)) THEN "exception" ELSE "completed"
    /\ pages_crawled' = pages_crawled + 1
    /\ UNCHANGED <<max_pages, pc, pages0, indexVars, searchVars, tokVars>>

\* The loop condition is false: print("Crawling finished."), self.conn.close()
Finish ==
    /\ pc = "crawl" /\ ~LoopCond
    /\ pc' = "done"
    /\ UNCHANGED <<queue, visited_urls, robot_parsers, pages, pages_crawled,
                   max_pages, pages0, fetched, readLog, fetch_count, last, indexVars,
                   searchVars, tokVars>>

NextCrawl ==
    \/ SkipVisited
    \/ Disallowed
    \/ FetchFailed
    \/ FetchStored
    \/ Finish

SpecCrawl == InitCrawl /\ [][NextCrawl]_vars

\* Rows inserted by this run.
Inserted == SubSeq(pages, Len(pages0) + 1, Len(pages))

\* Inserts of this run that the table rejected (counted by pages_crawled all the same).
Rejected == pages_crawled - Len(Inserted)

AllFailed(h) == \A i \in DOMAIN readLog[h] : readLog[h][i] = "fail"

(***************************************************************************)
(* Claims about the crawler.                                               *)
(***************************************************************************)

NoTwoSameUrl == \A i, j \in DOMAIN pages : pages[i].url = pages[j].url => i = j

ExistingUnchanged == \A i \in DOMAIN pages : i \in DOMAIN pages' /\ pages'[i] = pages[i]

\* C1: in every reachable state of a crawl run, also one started on a table that
\* already holds rows, no two rows of the pages table have the same URL, and no
\* step changes or removes a row that is already stored (a rejected insert leaves
\* the table as it was).
C1_Dedup == [](NoTwoSameUrl) /\ [][ExistingUnchanged]_vars

\* A finished run in which an insert was rejected and another one succeeded.
C1_Witness == pc = "done" /\ Rejected >= 1 /\ Len(Inserted) >= 1

\* C2: the number of rows a run of crawl(max_pages=N) inserts never exceeds N,
\* and is zero when N <= 0.
C2_Cap == Len(Inserted) <= (IF max_pages > 0 THEN max_pages ELSE 0)

\* The run stopped at the cap with URLs still pending in the frontier.
C2_Witness == pc = "done" /\ queue # <<>> /\ max_pages >= 1 /\ Len(Inserted) = max_pages

\* C3: a host whose every rp.read() raised has none of its URLs fetched and none
\* stored by this run.
C3_FailClosed ==
    \A h \in Hosts :
        AllFailed(h) =>
            \A u \in fetched \cup StoredUrls(Inserted) : base_url(u) # h

\* A finished run that tried a host's policy twice, failing both times, and
\* fetched from another host.
C3_Witness ==
    /\ pc = "done"
    /\ \E h \in Hosts : Len(readLog[h]) >= 2 /\ AllFailed(h)
    /\ fetched # {}

\* C4: once the first rp.read() for a host has raised, the policy of that host is
\* never read again and no URL of that host is fetched in the run.
C4_DenyAllCached ==
    \A h \in Hosts :
        (readLog[h] # <<>> /\ readLog[h][1] = "fail") =>
            /\ Len(readLog[h]) = 1
            /\ \A u \in fetched : base_url(u) # h

\* C5: whenever a loop iteration appends links to the queue, no appended URL is in
\* the visited set and none is already in the queue.
C5_EnqueueOnce ==
    [][(pc = "crawl" /\ LoopCond) =>
          \A k \in Len(queue)..Len(queue') :
              /\ queue'[k] \notin visited_urls'
              /\ \A j \in 1..(k - 1) : queue'[j] # queue'[k]]_vars

\* C6: when crawl(max_pages=N) with N >= 0 has stopped, the frontier is empty or
\* this run has inserted exactly N rows.
C6_StopExact ==
    (pc = "done" /\ max_pages >= 0) => (queue = <<>> \/ Len(Inserted) = max_pages)

FetchedAtMostOnce ==
    \A u \in Urls : fetch_count[u] <= 1 /\ (fetch_count[u] > 0 => u \in visited_urls)

VisitedIsSkipped ==
    (pc = "crawl" /\ LoopCond /\ Head(queue) \in visited_urls) =>
        /\ fetch_count' = fetch_count
        /\ readLog' = readLog
        /\ robot_parsers' = robot_parsers
        /\ queue' = Tail(queue)

MarkedBeforeFetch ==
    \A u \in Urls :
        fetch_count'[u] > fetch_count[u] => (u \notin visited_urls /\ u \in visited_urls')

\* C15: within one crawl run no URL is fetched more than once and every fetched URL
\* is in the visited set; a pass that fetches a URL finds it unvisited and leaves it
\* visited; a pass that dequeues a visited URL fetches nothing, loads no policy and
\* only pops the queue, also when the earlier fetch of that URL failed.
C15_VisitedOnce ==
    [](FetchedAtMostOnce) /\ [][VisitedIsSkipped /\ MarkedBeforeFetch]_vars

\* A visited URL was dequeued and skipped although no fetch of this run stored or
\* counted anything: the earlier fetch of that URL failed.
C15_Witness ==
    /\ last = "skipped"
    /\ pages_crawled = 0
    /\ pages = <<>>
    /\ \E u \in Urls : fetch_count[u] = 1

\* C16: a pass of the crawl loop that fetched a URL and ended in a failure (the
\* request raised, the status was not 200, or parsing the page raised) leaves the
\* pages table and the page counter unchanged, appends no link to the queue, and
\* leaves the run in its loop.
C16_FailedPassNoEffect ==
    [][(fetch_count' # fetch_count /\ last' \in FetchFailures) =>
          /\ pages' = pages
          /\ pages_crawled' = pages_crawled
          /\ queue' = Tail(queue)
          /\ pc' = "crawl"]_vars

\* The crawl run with its loop scheduled: crawl() is one sequential loop, each
\* policy load and each fetch returns (timeout=5), so an enabled pass is taken.
SpecCrawlFair == SpecCrawl /\ WF_vars(NextCrawl)

\* C17: every crawl run eventually reaches "Crawling finished.".
C17_Terminates == <>(pc = "done")

\* A run that has finished after it stored a page whose link was appended to the
\* queue.
C17_Witness ==
    /\ pc = "done"
    /\ \E i \in DOMAIN Inserted :
          LET links == find_all_links(Inserted[i].html_content)
          IN links # <<>> /\ ~urljoin_raises(links[1]) /\ startswith_http(links[1])

(***************************************************************************)
(* Text preprocessing (indexer.py _preprocess_text, searcher.py            *)
(* _preprocess_query).  A text is a sequence of characters.                *)
(***************************************************************************)
MaxTextLen == 3
NumDocs == 2
FirstDocId == 9

SpaceChars == {" "}

LowerLetters ==
    <<"a", "b", "c", "d", "e", "f", "g", "h", "i", "j", "k", "l", "m", "n",
      "o", "p", "q", "r", "s", "t", "u", "v", "w", "x", "y", "z">>

UpperLetters ==
    <<"A", "B", "C", "D", "E", "F", "G", "H", "I", "J", "K", "L", "M", "N",
      "O", "P", "Q", "R", "S", "T", "U", "V", "W", "X", "Y", "Z">>

DigitChars == {"0", "1", "2", "3", "4", "5", "6", "7", "8", "9"}

\* U+212A KELVIN SIGN, one character: not an ASCII letter, and "\u212a".lower() == "k"
KelvinSign == "U+212A"

KeptChars == Range(LowerLetters) \cup DigitChars \cup SpaceChars

\* str.lower() on one character
lower_char(c) ==
    IF \E i \in DOMAIN UpperLetters : UpperLetters[i] = c
    THEN LowerLetters[CHOOSE i \in DOMAIN UpperLetters : UpperLetters[i] = c]
    ELSE IF c = KelvinSign THEN "k" ELSE c

\* text.lower()
lower(text) == [i \in DOMAIN text |-> lower_char(text[i])]

\* [a-z0-9\s]
is_kept(c) == c \in KeptChars

\* re.sub(r'[^a-z0-9\s]', '', text)
re_sub(text) == SelectSeq(text, is_kept)

\* The tokens of a text of letters, digits and whitespace: its maximal runs of
\* non-whitespace characters.
RECURSIVE split_ws(_, _, _)
split_ws(text, cur, acc) ==
    IF text = <<>>
    THEN IF cur = <<>> THEN acc ELSE Append(acc, cur)
    ELSE IF Head(text) \in SpaceChars
         THEN split_ws(Tail(text), <<>>, IF cur = <<>> THEN acc ELSE Append(acc, cur))
         ELSE split_ws(Tail(text), Append(cur, Head(text)), acc)

\* nltk word_tokenize on the cleaned text
word_tokenize(text) == split_ws(text, <<>>, <<>>)

\* set(stopwords.words('english')), the members spelled with the model's letters
\* (a b c d k n o t and the apostrophe)
stop_words ==
    {<<"a">>, <<"a", "n">>, <<"a", "n", "d">>, <<"a", "t">>, <<"c", "a", "n">>,
     <<"d">>, <<"d", "o">>, <<"d", "o", "n">>, <<"d", "o", "n", "'", "t">>,
     <<"n", "o">>, <<"n", "o", "t">>, <<"o">>, <<"o", "n">>, <<"t">>, <<"t", "o">>,
     <<"t", "o", "o">>}

not_stop_word(word) == word \notin stop_words

\* Indexer._preprocess_text
preprocess_text(text) == SelectSeq(word_tokenize(re_sub(lower(text))), not_stop_word)

(***************************************************************************)
(* Python dicts and lists.  A dict is the sequence of its <<key, value>>   *)
(* items in insertion order, keys distinct.                                *)
(***************************************************************************)
Keys(d) == {d[i][1] : i \in DOMAIN d}

\* d[k] for a key of d
Lookup(d, k) == d[CHOOSE i \in DOMAIN d : d[i][1] = k][2]

\* d.get(k, default)
Get(d, k, default) == IF k \in Keys(d) THEN Lookup(d, k) ELSE default

\* d[k] = v
SetItem(d, k, v) ==
    IF k \in Keys(d)
    THEN [i \in DOMAIN d |-> IF d[i][1] = k THEN <<k, v>> ELSE d[i]]
    ELSE Append(d, <<k, v>>)

\* d1 == d2: the same keys with equal values, whatever the insertion order
DictEq(d1, d2) ==
    /\ Keys(d1) = Keys(d2)
    /\ \A k \in Keys(d1) : Lookup(d1, k) = Lookup(d2, k)

(***************************************************************************)
(* Indexer.build_index, one word of one document at a time.                *)
(***************************************************************************)
add_posting_new_word_only(index, word, doc_id) ==
    IF word \notin Keys(index) THEN SetItem(index, word, <<doc_id>>) ELSE index

add_posting_overwrite(index, word, doc_id) == SetItem(index, word, <<doc_id>>)

add_posting_always(index, word, doc_id) ==
    SetItem(index, word, Append(Get(index, word, <<>>), doc_id))

\* if word not in index: index[word] = []
\* if doc_id not in index[word]: index[word].append(doc_id)
add_posting(index, word, doc_id) ==
    LET d == IF word \in Keys(index) THEN index ELSE SetItem(index, word, <<>>) IN
    IF doc_id \in Range(Lookup(d, word))
    THEN d
    ELSE SetItem(d, word, Append(Lookup(d, word), doc_id))

DocChars == {"a", "b", "c", "B", " "}
DocTexts == SeqUpTo(DocChars, MaxTextLen)

\* The table holding the given texts, with consecutive ids from FirstDocId on.
StoreOf(texts) ==
    [i \in DOMAIN texts |->
        Row(FirstDocId + i - 1, <<1, i>>, [text |-> texts[i], links |-> <<>>])]

\* The crawl is over: the table is closed and at rest.
CrawlIdle ==
    /\ queue = <<>>
    /\ visited_urls = {}
    /\ robot_parsers = <<>>
    /\ pages0 = pages
    /\ pages_crawled = 0
    /\ max_pages = 0
    /\ pc = "done"
    /\ fetched = {}
    /\ readLog = [h \in Hosts |-> <<>>]
    /\ fetch_count = [u \in Urls |-> 0]
    /\ last = "none"

InitIndex ==
    /\ \E n \in 0..NumDocs : \E texts \in [1..n -> DocTexts] : pages = StoreOf(texts)
    /\ CrawlIdle
    /\ rows = <<>>
    /\ row_i = 0
    /\ words = <<>>
    /\ inverted_index = <<>>
    /\ ipc = "start"
    /\ index_file = <<>>
    /\ file_exists = FALSE
    /\ index_file0 = <<>>
    /\ observed = <<>>
    /\ searcher_index = <<>>
    /\ SearchIdle
    /\ TokIdle

\* Every order a set's elements can be iterated in.
IterOrders(S) ==
    {p \in [1..Cardinality(S) -> S] : \A i, j \in DOMAIN p : p[i] = p[j] => i = j}

\* The rows of the table taken in the given order of positions.
select_rows(tbl, order) ==
    [i \in DOMAIN order |-> <<tbl[order[i]].id, tbl[order[i]].text_content>>]

\* cursor.execute("SELECT id, text_content FROM pages"); rows = cursor.fetchall()
\* There is no ORDER BY: the rows come in an order SQL leaves to the engine.
BuildFetch ==
    /\ ipc = "start"
    /\ \E order \in IterOrders(DOMAIN pages) : rows' = select_rows(pages, order)
    /\ ipc' = "build"
    /\ UNCHANGED <<crawlVars, searchVars, tokVars, observed, index_file0, file_exists, row_i, words, inverted_index, index_file, searcher_index>>

\* for i, row in enumerate(rows): processed_words = self._preprocess_text(text_content)
BuildDoc ==
    /\ ipc = "build" /\ words = <<>> /\ row_i < Len(rows)
    /\ row_i' = row_i + 1
    /\ words' = preprocess_text(rows[row_i + 1][2])
    /\ UNCHANGED <<crawlVars, searchVars, tokVars, observed, index_file0, file_exists, rows, inverted_index, ipc, index_file, searcher_index>>

\* for word in processed_words: one pass of the loop body
BuildWord ==
    /\ ipc = "build" /\ words # <<>>
    /\ inverted_index' = add_posting(inverted_index, Head(words), rows[row_i][1])
    /\ words' = Tail(words)
    /\ UNCHANGED <<crawlVars, searchVars, tokVars, observed, index_file0, file_exists, rows, row_i, ipc, index_file, searcher_index>>

\* Both loops are exhausted: self.conn.close()
BuildDone ==
    /\ ipc = "build" /\ words = <<>> /\ row_i = Len(rows)
    /\ ipc' = "built"
    /\ UNCHANGED <<crawlVars, searchVars, tokVars, observed, index_file0, file_exists, rows, row_i, words, inverted_index, index_file, searcher_index>>

(***************************************************************************)
(* The index file.  json.dump(index, f, indent=4) writes the dict as text, *)
(* json.load(f) parses the text back; the file is a sequence of characters.*)
(***************************************************************************)
IndentWidth == 4

Digits == <<"0", "1", "2", "3", "4", "5", "6", "7", "8", "9">>

\* The decimal digits of a non-negative int.
RECURSIVE int_str(_)
int_str(n) ==
    IF n < 10 THEN <<Digits[n + 1]>>
    ELSE Append(int_str(n \div 10), Digits[(n % 10) + 1])

\* A line break and the indentation of a nesting level.
NewLine(level) == <<"\n">> \o [i \in 1..(IndentWidth * level) |-> " "]

RECURSIVE Join(_, _)
Join(parts, sep) ==
    IF parts = <<>> THEN <<>>
    ELSE IF Len(parts) = 1 THEN parts[1]
    ELSE parts[1] \o sep \o Join(Tail(parts), sep)

Reverse(s) == [i \in DOMAIN s |-> s[Len(s) + 1 - i]]

dump_list_body(ids, level) ==
    IF ids = <<>> THEN <<"[", "]">>
    ELSE <<"[">> \o NewLine(level + 1)
         \o Join([i \in DOMAIN ids |-> int_str(ids[i])], <<",">> \o NewLine(level + 1))
         \o NewLine(level) \o <<"]">>

dump_list_reversed(ids, level) == dump_list_body(Reverse(ids), level)

\* a list of ints
dump_list(ids, level) == dump_list_body(ids, level)

\* a key: the terms hold letters and digits only, nothing is escaped
dump_str(word) == <<"\"">> \o word \o <<"\"">>

\* json.dump(self.inverted_index, f, indent=4)
json_dump(d) ==
    IF d = <<>> THEN <<"{", "}">>
    ELSE <<"{">> \o NewLine(1)
         \o Join([i \in DOMAIN d |-> dump_str(d[i][1]) \o <<":", " ">> \o dump_list(d[i][2], 1)],
                 <<",">> \o NewLine(1))
         \o NewLine(0) \o <<"}">>

is_ws(c) == c \in {" ", "\n"}

is_digit(c) == \E k \in DOMAIN Digits : Digits[k] = c

digit_val(c) == (CHOOSE k \in DOMAIN Digits : Digits[k] = c) - 1

\* Each scanner returns the value it read and the position after it.
RECURSIVE skip_ws(_, _)
skip_ws(s, i) == IF i <= Len(s) /\ is_ws(s[i]) THEN skip_ws(s, i + 1) ELSE i

\* i is past the opening quote
RECURSIVE scan_string(_, _, _)
scan_string(s, i, acc) ==
    IF s[i] = "\"" THEN [v |-> acc, i |-> i + 1]
    ELSE scan_string(s, i + 1, Append(acc, s[i]))

RECURSIVE scan_int(_, _, _)
scan_int(s, i, n) ==
    IF i <= Len(s) /\ is_digit(s[i])
    THEN scan_int(s, i + 1, 10 * n + digit_val(s[i]))
    ELSE [v |-> n, i |-> i]

\* i is at an element
RECURSIVE scan_elements(_, _, _)
scan_elements(s, i, acc) ==
    LET e == scan_int(s, i, 0)
        j == skip_ws(s, e.i)
    IN IF s[j] = ","
       THEN scan_elements(s, skip_ws(s, j + 1), Append(acc, e.v))
       ELSE [v |-> Append(acc, e.v), i |-> j + 1]

\* i is at "["
scan_list(s, i) ==
    LET j == skip_ws(s, i + 1) IN
    IF s[j] = "]" THEN [v |-> <<>>, i |-> j + 1] ELSE scan_elements(s, j, <<>>)

\* i is at the opening quote of a key; a repeated key keeps its last value
RECURSIVE scan_members(_, _, _)
scan_members(s, i, acc) ==
    LET k == scan_string(s, i + 1, <<>>)
        c == skip_ws(s, k.i)
        l == scan_list(s, skip_ws(s, c + 1))
        j == skip_ws(s, l.i)
    IN IF s[j] = ","
       THEN scan_members(s, skip_ws(s, j + 1), SetItem(acc, k.v, l.v))
       ELSE [v |-> SetItem(acc, k.v, l.v), i |-> j + 1]

\* json.load(f) of a file holding an object of lists of ints
json_load(s) ==
    LET i == skip_ws(s, 1)
        j == skip_ws(s, i + 1)
    IN IF s[j] = "}" THEN <<>> ELSE scan_members(s, j, <<>>).v

\* Indexer.save_index
SaveIndex ==
    /\ ipc = "built"
    /\ index_file' = json_dump(inverted_index)
    /\ file_exists' = TRUE
    /\ ipc' = "saved"
    /\ UNCHANGED <<crawlVars, searchVars, tokVars, observed, index_file0, rows, row_i, words, inverted_index, searcher_index>>

\* Searcher.__init__: with open(self.index_path, 'r') as f: json.load(f)
LoadIndex ==
    /\ ipc = "saved"
    /\ searcher_index' = json_load(index_file)
    /\ ipc' = "loaded"
    /\ UNCHANGED <<crawlVars, searchVars, tokVars, observed, index_file0, file_exists, rows, row_i, words, inverted_index, index_file>>

NextIndex ==
    \/ BuildFetch
    \/ BuildDoc
    \/ BuildWord
    \/ BuildDone
    \/ SaveIndex
    \/ LoadIndex

SpecIndex == InitIndex /\ [][NextIndex]_vars

(***************************************************************************)
(* Claims about the indexer and the index file.                            *)
(***************************************************************************)
NoDuplicates(s) == \A i, j \in DOMAIN s : s[i] = s[j] => i = j

HasDuplicates(s) == \E i, j \in DOMAIN s : i # j /\ s[i] = s[j]

\* C8: at every step of build_index and in the finished index, no posting list
\* holds a document id twice, however often the term occurs in the document.
C8_PostingOnce ==
    \A k \in DOMAIN inverted_index : NoDuplicates(inverted_index[k][2])

\* The index is built and a document repeats one of its terms.
C8_Witness ==
    /\ ipc = "built"
    /\ \E r \in DOMAIN rows : HasDuplicates(preprocess_text(rows[r][2]))

\* C9: the index loaded from the file save_index wrote equals the built index:
\* the same terms, and for every term the same ids, as integers, in the same order.
C9_RoundTrip ==
    ipc = "loaded" =>
        /\ DictEq(searcher_index, inverted_index)
        /\ \A k \in DOMAIN searcher_index :
              \A i \in DOMAIN searcher_index[k][2] : searcher_index[k][2][i] \in Nat

\* A loaded index of two terms, one of them with a posting list of two ids.
C9_Witness ==
    /\ ipc = "loaded"
    /\ Len(searcher_index) >= 2
    /\ \E k \in DOMAIN searcher_index :
          /\ Len(searcher_index[k][2]) >= 2
          /\ \E i \in DOMAIN searcher_index[k][2] : searcher_index[k][2][i] >= 10

\* The terms of the stored documents and of the index.
AllTerms ==
    Keys(inverted_index)
    \cup UNION {Range(preprocess_text(pages[r].text_content)) : r \in DOMAIN pages}

\* C18: once build_index is done, the id of a stored document is in the posting
\* list of a term exactly if the term is among the terms of the document's
\* text; no posting list is empty; every id in a posting list is the id of a
\* stored document.
C18_PostingsExact ==
    ipc = "built" =>
        /\ \A r \in DOMAIN pages : \A t \in AllTerms :
              pages[r].id \in Range(Get(inverted_index, t, <<>>))
                  <=> t \in Range(preprocess_text(pages[r].text_content))
        /\ \A k \in DOMAIN inverted_index : inverted_index[k][2] # <<>>
        /\ \A k \in DOMAIN inverted_index :
              Range(inverted_index[k][2]) \subseteq {pages[r].id : r \in DOMAIN pages}

\* Two documents that share a term, one of them with a term the other lacks.
C18_Witness ==
    /\ ipc = "built"
    /\ \E k \in DOMAIN inverted_index : Len(inverted_index[k][2]) = 2
    /\ \E k \in DOMAIN inverted_index : Len(inverted_index[k][2]) = 1

(***************************************************************************)
(* Searcher.search                                                         *)
(***************************************************************************)
MaxQueryLen == 3
MaxPostings == 2
MaxSearches == 2
SnippetLen == 100

preprocess_query_keep_stop(q) == word_tokenize(re_sub(lower(q)))

\* Searcher._preprocess_query
preprocess_query(q) == SelectSeq(word_tokenize(re_sub(lower(q))), not_stop_word)

intersection_update_nonempty(s, lst) == IF lst = <<>> THEN s ELSE s \cap Range(lst)

\* result_doc_ids.intersection_update(lst)
intersection_update(s, lst) == s \cap Range(lst)

\* for word in processed_query[1:]: result_doc_ids.intersection_update(index.get(word, []))
RECURSIVE intersect_rest(_, _, _)
intersect_rest(index, ws, acc) ==
    IF ws = <<>> THEN acc
    ELSE intersect_rest(index, Tail(ws),
                        intersection_update(acc, Get(index, Head(ws), <<>>)))

\* result_doc_ids after the loop, for a non-empty processed query
candidate_ids(index, pq) ==
    intersect_rest(index, Tail(pq), Range(Get(index, pq[1], <<>>)))

score_of_distinct(pq, acc) == acc + Cardinality(Range(pq))

\* for word in processed_query: doc_scores[doc_id] += 1
RECURSIVE score_of(_, _)
score_of(pq, acc) == IF pq = <<>> THEN acc ELSE score_of(Tail(pq), acc + 1)

\* doc_scores: filled in the order the set result_doc_ids is iterated in
doc_scores(order, pq) == [i \in DOMAIN order |-> <<order[i], score_of(pq, 0)>>]

\* sorted(..., reverse=True) is stable: x goes behind every key scored >= x
RECURSIVE insert_desc(_, _, _)
insert_desc(sorted, x, scores) ==
    IF sorted = <<>> THEN <<x>>
    ELSE IF Lookup(scores, Head(sorted)) >= Lookup(scores, x)
         THEN <<Head(sorted)>> \o insert_desc(Tail(sorted), x, scores)
         ELSE <<x>> \o sorted

RECURSIVE sort_desc(_, _, _)
sort_desc(keys, scores, acc) ==
    IF keys = <<>> THEN acc
    ELSE sort_desc(Tail(keys), scores, insert_desc(acc, Head(keys), scores))

\* sorted(doc_scores.keys(), key=lambda x: doc_scores[x], reverse=True)
sorted_doc_ids(scores) == sort_desc([i \in DOMAIN scores |-> scores[i][1]], scores, <<>>)

RECURSIVE lstrip(_)
lstrip(t) == IF t # <<>> /\ Head(t) \in SpaceChars THEN lstrip(Tail(t)) ELSE t

RECURSIVE rstrip(_)
rstrip(t) ==
    IF t # <<>> /\ t[Len(t)] \in SpaceChars THEN rstrip(SubSeq(t, 1, Len(t) - 1)) ELSE t

\* text_content[:100].strip() + "..."
title_snippet(text) ==
    LET n == IF Len(text) < SnippetLen THEN Len(text) ELSE SnippetLen IN
    rstrip(lstrip(SubSeq(text, 1, n))) \o <<".", ".", ".">>

\* SELECT url, text_content FROM pages WHERE id = ?; a missing row is skipped
RECURSIVE fetch_results(_, _, _)
fetch_results(tbl, ids, acc) ==
    IF ids = <<>> THEN acc
    ELSE LET hit == {i \in DOMAIN tbl : tbl[i].id = Head(ids)} IN
         fetch_results(tbl, Tail(ids),
             IF hit = {} THEN acc
             ELSE LET row == tbl[CHOOSE i \in hit : TRUE] IN
                  Append(acc, <<row.url, title_snippet(row.text_content)>>))

\* Searcher.search(q): the processed query, result_doc_ids, doc_scores,
\* sorted_doc_ids and the returned list, with the number of inverted_index.get
\* calls and of SELECT statements it made; order is the order in which the set
\* result_doc_ids is iterated.
search(q, index, tbl, order) ==
    LET pq == preprocess_query(q) IN
    IF pq = <<>>
    THEN [terms |-> pq, doc_ids |-> {}, scores |-> <<>>, ranked |-> <<>>,
          gets |-> 0, selects |-> 0, out |-> <<>>]
    ELSE LET ids == candidate_ids(index, pq) IN
         IF ids = {}
         THEN [terms |-> pq, doc_ids |-> ids, scores |-> <<>>, ranked |-> <<>>,
               gets |-> Len(pq), selects |-> 0, out |-> <<>>]
         ELSE LET scores == doc_scores(order, pq)
                  ranked == sorted_doc_ids(scores)
              IN [terms |-> pq, doc_ids |-> ids, scores |-> scores, ranked |-> ranked,
                  gets |-> Len(pq), selects |-> Len(ranked),
                  out |-> fetch_results(tbl, ranked, <<>>)]

\* The posting lists a loaded index file may hold for a term.
PostingLists == SeqUpTo(1..NumDocs, MaxPostings)

IndexTerms == <<<<"b">>, <<"c">>>>

\* The dict holding the terms numbered in S, term i with posting list f[i].
IndexOf(S, f) ==
    LET present == SelectSeq([i \in DOMAIN IndexTerms |-> i], LAMBDA i : i \in S) IN
    [k \in DOMAIN present |-> <<IndexTerms[present[k]], f[present[k]]>>]

\* Loaded indexes: any of the terms, each with any posting list.
SearchIndexes ==
    UNION {{IndexOf(S, f) : f \in [S -> PostingLists]} : S \in SUBSET DOMAIN IndexTerms}

SnippetTexts == {<<" ", "b">>, <<"c">>}

SearchStores ==
    {[i \in DOMAIN texts |-> Row(i, <<1, i>>, [text |-> texts[i], links |-> <<>>])] :
        texts \in UNION {[1..n -> SnippetTexts] : n \in 0..NumDocs}}

QueryChars == {"a", "b", "c", " "}

InitSearch ==
    /\ pages \in SearchStores
    /\ CrawlIdle
    /\ searcher_index \in SearchIndexes
    /\ index_file = json_dump(searcher_index)
    /\ rows = <<>>
    /\ row_i = 0
    /\ words = <<>>
    /\ inverted_index = <<>>
    /\ ipc = "serving"
    /\ file_exists = TRUE
    /\ index_file0 = index_file
    /\ observed = <<>>
    /\ query \in SeqUpTo(QueryChars, MaxQueryLen)
    /\ results = <<>>
    /\ TokIdle

\* results = self.search(query), once more for the same input line
Search ==
    /\ ipc = "serving"
    /\ Len(results) < MaxSearches
    /\ \E order \in IterOrders(search(query, searcher_index, pages, <<>>).doc_ids) :
          results' = Append(results, search(query, searcher_index, pages, order))
    /\ UNCHANGED <<crawlVars, indexVars, tokVars, query>>

NextSearch == Search

SpecSearch == InitSearch /\ [][NextSearch]_vars

(***************************************************************************)
(* Claims about search.                                                    *)
(***************************************************************************)
\* The ids found in the posting list of every term of pq; an absent term has none.
InEveryPostingList(pq) ==
    {d \in 1..NumDocs : \A i \in DOMAIN pq : d \in Range(Get(searcher_index, pq[i], <<>>))}

\* C7: for a query with at least one term, the candidate ids search computes are
\* the ids common to the posting lists of all its terms; if a term is absent
\* from the index the candidate set is empty and search returns the empty list.
C7_Intersection ==
    \A n \in DOMAIN results :
        LET r == results[n] IN
        r.terms # <<>> =>
            /\ r.doc_ids = InEveryPostingList(r.terms)
            /\ (\E i \in DOMAIN r.terms : r.terms[i] \notin Keys(searcher_index)) =>
                   (r.doc_ids = {} /\ r.out = <<>>)

\* A two-term search with both terms indexed that found a document, and an index
\* in which the two posting lists differ.
C7_Witness ==
    /\ results # <<>>
    /\ Len(results[1].terms) = 2
    /\ results[1].terms[1] # results[1].terms[2]
    /\ results[1].doc_ids # {}
    /\ Range(Lookup(searcher_index, results[1].terms[1]))
           # Range(Lookup(searcher_index, results[1].terms[2]))

\* C10: any two searches for the same query on the same index and table return
\* the same list of (url, snippet), in the same order, whatever order the
\* candidate set is iterated in.
C10_SameOrder ==
    \A m, n \in DOMAIN results : results[m].out = results[n].out

\* C12: a search whose query has no term left after preprocessing (empty text, or
\* only stopwords and punctuation) returned the empty list and made no lookup in
\* the index and no SELECT on the pages table.
C12_EmptyQuery ==
    \A n \in DOMAIN results :
        preprocess_text(query) = <<>> =>
            /\ results[n].out = <<>>
            /\ results[n].gets = 0
            /\ results[n].selects = 0

\* A search for a query made of a stopword, on an index and a table that are
\* not empty.
C12_Witness ==
    /\ results # <<>>
    /\ \E i \in DOMAIN query : query[i] = "a"
    /\ preprocess_text(query) = <<>>
    /\ searcher_index # <<>>
    /\ pages # <<>>
    /\ results[1].out = <<>>

\* C20: in a search that found candidates every candidate has the same score, the
\* number of terms of the processed query with repeated terms counted each
\* time, and the sorted ids are the candidates in the order they were scored in.
C20_UniformScore ==
    \A n \in DOMAIN results :
        LET r == results[n] IN
        r.doc_ids # {} =>
            /\ {r.scores[i][1] : i \in DOMAIN r.scores} = r.doc_ids
            /\ \A i \in DOMAIN r.scores : r.scores[i][2] = Len(r.terms)
            /\ r.ranked = [i \in DOMAIN r.scores |-> r.scores[i][1]]

\* A search with a repeated term that found two candidates.
C20_Witness ==
    /\ results # <<>>
    /\ Len(results[1].terms) = 2
    /\ results[1].terms[1] = results[1].terms[2]
    /\ Cardinality(results[1].doc_ids) = 2
    /\ Len(results[1].ranked) = 2

(***************************************************************************)
(* build_index as a function of the rows, and the order of the rows.       *)
(***************************************************************************)
\* build_index's inner loop over the words of one document
RECURSIVE index_words(_, _, _)
index_words(index, ws, doc_id) ==
    IF ws = <<>> THEN index
    ELSE index_words(add_posting(index, Head(ws), doc_id), Tail(ws), doc_id)

\* build_index's loop over the given rows
RECURSIVE index_rows(_, _)
index_rows(index, rs) ==
    IF rs = <<>> THEN index
    ELSE index_rows(index_words(index, preprocess_text(Head(rs)[2]), Head(rs)[1]),
                    Tail(rs))

\* The index built from the rows in the order of the table.
IndexInTableOrder == index_rows(<<>>, select_rows(pages, [i \in DOMAIN pages |-> i]))

\* Processed queries of up to two terms, over the indexed terms and "b".
ProbeQueries ==
    LET T == AllTerms \cup {<<"b">>} IN {<<t>> : t \in T} \cup (T \X T)

\* C19: the index built from the rows in whatever order they were fetched in has
\* the terms of the index built in the order of the table and, for each term,
\* the same set of ids; every query gets the same candidate ids from both.
C19_OrderIndependent ==
    ipc = "built" =>
        LET ref == IndexInTableOrder IN
        /\ Keys(inverted_index) = Keys(ref)
        /\ \A t \in Keys(ref) :
              Range(Lookup(inverted_index, t)) = Range(Lookup(ref, t))
        /\ \A pq \in ProbeQueries :
              candidate_ids(inverted_index, pq) = candidate_ids(ref, pq)

\* The rows were fetched against the order of the table and a posting list came
\* out in another order than in the index built in table order.
C19_Witness ==
    /\ ipc = "built"
    /\ Len(rows) = 2
    /\ rows[1][1] > rows[2][1]
    /\ \E t \in Keys(inverted_index) :
          /\ Len(Lookup(inverted_index, t)) = 2
          /\ Lookup(inverted_index, t) # Lookup(IndexInTableOrder, t)

(***************************************************************************)
(* save_index next to a starting Searcher.  open(index_path, 'w') truncates  *)
(* the file, json.dump writes the text through the buffered file object,    *)
(* which hands it to the file in pieces, and leaving the with block flushes *)
(* the rest.  A Searcher started meanwhile reads what the file holds.       *)
(***************************************************************************)
MaxReads == 1
MaxFlush == 2

\* The index left in the file by the previous indexing run.
OldIndexes == {<<>>, <<<<IndexTerms[1], <<1>>>>>>}

InitSave ==
    /\ pages = <<>>
    /\ CrawlIdle
    /\ rows = <<>>
    /\ row_i = 0
    /\ words = <<>>
    /\ inverted_index \in SearchIndexes
    /\ ipc = "built"
    /\ \E old \in OldIndexes : index_file = json_dump(old)
    /\ index_file0 = index_file
    /\ file_exists = TRUE
    /\ observed = <<>>
    /\ searcher_index = <<>>
    /\ SearchIdle
    /\ TokIdle

\* with open(self.index_path, 'w') as f: the file is truncated
SaveOpen ==
    /\ ipc = "built"
    /\ index_file' = <<>>
    /\ ipc' = "writing"
    /\ UNCHANGED <<crawlVars, searchVars, tokVars, observed, index_file0, file_exists,
                   rows, row_i, words, inverted_index, searcher_index>>

\* json.dump(self.inverted_index, f, indent=4): the buffer of f is written out,
\* the file then holds up to MaxFlush more characters of the text
SaveFlush ==
    /\ ipc = "writing"
    /\ LET full == json_dump(inverted_index)
       IN \E n \in 1..MaxFlush :
             /\ Len(index_file) + n < Len(full)
             /\ index_file' = SubSeq(full, 1, Len(index_file) + n)
    /\ UNCHANGED <<crawlVars, searchVars, tokVars, observed, index_file0, file_exists,
                   rows, row_i, words, inverted_index, ipc, searcher_index>>

\* The with block is left: f.close() writes the rest
SaveClose ==
    /\ ipc = "writing"
    /\ index_file' = json_dump(inverted_index)
    /\ ipc' = "saved"
    /\ UNCHANGED <<crawlVars, searchVars, tokVars, observed, index_file0, file_exists,
                   rows, row_i, words, inverted_index, searcher_index>>

\* Searcher.__init__ in another process: with open(self.index_path, 'r') as f:
\* json.load(f), which starts with f.read()
ReaderRead ==
    /\ Len(observed) < MaxReads
    /\ file_exists
    /\ observed' = Append(observed, index_file)
    /\ UNCHANGED <<crawlVars, searchVars, tokVars, index_file0, file_exists,
                   rows, row_i, words, inverted_index, ipc, index_file, searcher_index>>

NextSave ==
    \/ SaveOpen
    \/ SaveFlush
    \/ SaveClose
    \/ ReaderRead

SpecSave == InitSave /\ [][NextSave]_vars

\* C13: whatever a reader of the index file got while save_index was running
\* is the complete content the file had before or the complete new content.
C13_AtomicSave ==
    \A i \in DOMAIN observed :
        observed[i] \in {index_file0, json_dump(inverted_index)}

(***************************************************************************)
(* Searcher.__init__ on any file.  json.load either raises                  *)
(* (json.JSONDecodeError) or returns the value the text denotes, whatever   *)
(* its shape.  A value is tagged with its Python type:                     *)
(*   [t |-> "int", v |-> n]       [t |-> "str", v |-> characters]          *)
(*   [t |-> "list", v |-> values] [t |-> "dict", v |-> <<key, value>> items]*)
(* The texts hold objects, arrays, strings without escapes and unsigned    *)
(* integers.                                                               *)
(***************************************************************************)
JsonFail == [ok |-> FALSE, v |-> [t |-> "none", v |-> 0], i |-> 0]

JsonOk(v, i) == [ok |-> TRUE, v |-> v, i |-> i]

\* i is past the opening quote; a control character ends the scan with an error
RECURSIVE parse_string(_, _, _)
parse_string(s, i, acc) ==
    IF i > Len(s) \/ s[i] = "\n" THEN JsonFail
    ELSE IF s[i] = "\"" THEN JsonOk([t |-> "str", v |-> acc], i + 1)
    ELSE parse_string(s, i + 1, Append(acc, s[i]))

\* NUMBER_RE: 0 or a digit string that does not start with 0
parse_int(s, i) ==
    IF s[i] = "0" THEN JsonOk([t |-> "int", v |-> 0], i + 1)
    ELSE LET r == scan_int(s, i, 0) IN JsonOk([t |-> "int", v |-> r.v], r.i)

RECURSIVE parse_value(_, _)
RECURSIVE parse_items(_, _, _)
RECURSIVE parse_members(_, _, _)

\* i is past "["
parse_array(s, i) ==
    LET j == skip_ws(s, i) IN
    IF j > Len(s) THEN JsonFail
    ELSE IF s[j] = "]" THEN JsonOk([t |-> "list", v |-> <<>>], j + 1)
    ELSE parse_items(s, j, <<>>)

\* i is past "{"
parse_object(s, i) ==
    LET j == skip_ws(s, i) IN
    IF j > Len(s) THEN JsonFail
    ELSE IF s[j] = "}" THEN JsonOk([t |-> "dict", v |-> <<>>], j + 1)
    ELSE parse_members(s, j, <<>>)

\* scan_once
parse_value(s, i) ==
    IF i > Len(s) THEN JsonFail
    ELSE IF s[i] = "\"" THEN parse_string(s, i + 1, <<>>)
    ELSE IF s[i] = "{" THEN parse_object(s, i + 1)
    ELSE IF s[i] = "[" THEN parse_array(s, i + 1)
    ELSE IF is_digit(s[i]) THEN parse_int(s, i)
    ELSE JsonFail

\* i is at an element of an array
parse_items(s, i, acc) ==
    LET e == parse_value(s, i) IN
    IF ~e.ok THEN JsonFail
    ELSE LET j == skip_ws(s, e.i) IN
         IF j > Len(s) THEN JsonFail
         ELSE IF s[j] = "," THEN parse_items(s, skip_ws(s, j + 1), Append(acc, e.v))
         ELSE IF s[j] = "]" THEN JsonOk([t |-> "list", v |-> Append(acc, e.v)], j + 1)
         ELSE JsonFail

\* i is at a key of an object; a repeated key keeps its last value
parse_members(s, i, acc) ==
    IF i > Len(s) \/ s[i] # "\"" THEN JsonFail
    ELSE LET k == parse_string(s, i + 1, <<>>) IN
         IF ~k.ok THEN JsonFail
         ELSE LET c == skip_ws(s, k.i) IN
              IF c > Len(s) \/ s[c] # ":" THEN JsonFail
              ELSE LET e == parse_value(s, skip_ws(s, c + 1)) IN
                   IF ~e.ok THEN JsonFail
                   ELSE LET j == skip_ws(s, e.i) IN
                        IF j > Len(s) THEN JsonFail
                        ELSE IF s[j] = ","
                             THEN parse_members(s, skip_ws(s, j + 1),
                                                SetItem(acc, k.v.v, e.v))
                        ELSE IF s[j] = "}"
                             THEN JsonOk([t |-> "dict", v |-> SetItem(acc, k.v.v, e.v)],
                                         j + 1)
                        ELSE JsonFail

\* json.load(f) of any text: ok is FALSE where it raises json.JSONDecodeError
\* (no value, or text after the value)
json_loads(s) ==
    LET r == parse_value(s, skip_ws(s, 1)) IN
    IF r.ok /\ skip_ws(s, r.i) > Len(s) THEN r ELSE JsonFail

\* A list of ints.
IsIdList(x) == x.t = "list" /\ \A k \in DOMAIN x.v : x.v[k].t = "int"

\* set(x) and set.intersection_update(x) raise TypeError: x is an int (not
\* iterable) or a list holding a list or a dict (unhashable).
RaisesTypeError(x) ==
    \/ x.t = "int"
    \/ x.t = "list" /\ \E k \in DOMAIN x.v : x.v[k].t \in {"list", "dict"}

\* The items of a loaded dict under the given keys, as a dict of lists of ints.
Untagged(items, keys) ==
    LET used == SelectSeq(items, LAMBDA m : m[1] \in keys)
    IN [k \in DOMAIN used |->
           <<used[k][1], [n \in DOMAIN used[k][2].v |-> used[k][2].v[n].v]>>]

\* Searcher.search(q) on whatever json.load returned: the exception it raises
\* ("none" if it returns) and the list it returns.  The values under the
\* terms of the query are ints or lists of ints.
search_loaded(q, val, tbl, order) ==
    LET pq == preprocess_query(q) IN
    IF pq = <<>> THEN [raised |-> "none", out |-> <<>>]
    ELSE IF val.t # "dict" THEN [raised |-> "AttributeError", out |-> <<>>]
    ELSE IF \E k \in DOMAIN val.v : val.v[k][1] \in Range(pq) /\ RaisesTypeError(val.v[k][2])
         THEN [raised |-> "TypeError", out |-> <<>>]
         ELSE [raised |-> "none",
               out |-> search(q, Untagged(val.v, Range(pq)), tbl, order).out]

\* result_doc_ids of that search, empty where there is none
loaded_doc_ids(q, val, tbl) ==
    LET pq == preprocess_query(q) IN
    IF pq = <<>> \/ search_loaded(q, val, tbl, <<>>).raised # "none" THEN {}
    ELSE search(q, Untagged(val.v, Range(pq)), tbl, <<>>).doc_ids

\* Indexes whose dumps are the well-formed files.
StartupIndexes ==
    {<<>>,
     <<<<IndexTerms[1], <<1>>>>>>,
     <<<<IndexTerms[1], <<1, 2>>>>, <<IndexTerms[2], <<2>>>>>>}

WellFormedFiles == {json_dump(idx) : idx \in StartupIndexes}

\* A save that was cut short left a proper prefix of a dump.
TruncatedFiles ==
    UNION {{SubSeq(f, 1, n) : n \in 0..(Len(f) - 1)} : f \in WellFormedFiles}

\* Texts that are no JSON: b   {1}   01   [1,]   {}}
UnparseableFiles ==
    {<<"b">>, <<"{", "1", "}">>, <<"0", "1">>,
     <<"[", "1", ",", "]">>, <<"{", "}", "}">>}

\* JSON of another shape: []   [1]   1   "b"   {"b": 1}   {"b": [1], "c": 2}
WrongShapeFiles ==
    {<<"[", "]">>, <<"[", "1", "]">>, <<"1">>, <<"\"", "b", "\"">>,
     <<"{", "\"", "b", "\"", ":", " ", "1", "}">>,
     <<"{", "\"", "b", "\"", ":", " ", "[", "1", "]", ",", " ", "\"", "c", "\"", ":", " ", "2", "}">>}

StartupFiles ==
    WellFormedFiles \cup TruncatedFiles \cup UnparseableFiles \cup WrongShapeFiles

\* The input lines: empty, a stopword, a term, another term, two terms.
StartupQueries == {<<>>, <<"a">>, <<"b">>, <<"c">>, <<"b", " ", "c">>}

InitStartup ==
    /\ pages \in SearchStores
    /\ CrawlIdle
    /\ rows = <<>>
    /\ row_i = 0
    /\ words = <<>>
    /\ inverted_index = <<>>
    /\ ipc = "startup"
    /\ file_exists \in BOOLEAN
    /\ IF file_exists THEN index_file \in StartupFiles ELSE index_file = <<>>
    /\ index_file0 = index_file
    /\ observed = <<>>
    /\ searcher_index = <<>>
    /\ query \in StartupQueries
    /\ results = <<>>
    /\ TokIdle

\* Searcher.__init__: open raises FileNotFoundError or json.load raises
\* json.JSONDecodeError; nothing catches either, the process ends.
StartupCrash ==
    /\ ipc = "startup"
    /\ ~file_exists \/ ~json_loads(index_file).ok
    /\ ipc' = "crashed"
    /\ UNCHANGED <<crawlVars, searchVars, tokVars, observed, index_file0, file_exists,
                   rows, row_i, words, inverted_index, index_file, searcher_index>>

\* Searcher.__init__: self.inverted_index = json.load(f), "Index loaded successfully."
StartupLoad ==
    /\ ipc = "startup"
    /\ file_exists /\ json_loads(index_file).ok
    /\ searcher_index' = json_loads(index_file).v
    /\ ipc' = "serving"
    /\ UNCHANGED <<crawlVars, searchVars, tokVars, observed, index_file0, file_exists,
                   rows, row_i, words, inverted_index, index_file>>

\* results = self.search(query) in start_search_interface; an exception of
\* search ends the session
StartupSearch ==
    /\ ipc = "serving"
    /\ Len(results) < MaxSearches
    /\ \E order \in IterOrders(loaded_doc_ids(query, searcher_index, pages)) :
          LET r == search_loaded(query, searcher_index, pages, order)
          IN /\ results' = Append(results, r)
             /\ ipc' = IF r.raised = "none" THEN "serving" ELSE "crashed"
    /\ UNCHANGED <<crawlVars, tokVars, observed, index_file0, file_exists,
                   rows, row_i, words, inverted_index, index_file, searcher_index, query>>

NextStartup ==
    \/ StartupCrash
    \/ StartupLoad
    \/ StartupSearch

SpecStartup == InitStartup /\ [][NextStartup]_vars

\* There is no file, its text is no JSON, or the JSON is not an object whose
\* values are lists of ints.
Malformed ==
    \/ ~file_exists
    \/ ~json_loads(index_file).ok
    \/ json_loads(index_file).v.t # "dict"
    \/ \E k \in DOMAIN json_loads(index_file).v.v :
           ~IsIdList(json_loads(index_file).v.v[k][2])

\* C14: with a missing or malformed index file the Searcher never gets to serve
\* queries, and no search has returned a list.
C14_FailAtStartup ==
    Malformed =>
        /\ ipc # "serving"
        /\ \A n \in DOMAIN results : results[n].raised # "none"

(***************************************************************************)
(* The tokenizer on its own: one call of Indexer._preprocess_text or of    *)
(* Searcher._preprocess_query on a text.                                   *)
(***************************************************************************)
MaxTokLen == 5

\* Characters a text under preprocessing is made of: lower and upper case
\* letters, the apostrophe, a non-ASCII letter and the blank.
TokChars == {"d", "o", "n", "t", "D", "'", KelvinSign, " "}

InitTokenize ==
    /\ raw_text \in SeqUpTo(TokChars, MaxTokLen)
    /\ processed_words = <<>>
    /\ tpc = "idle"
    /\ pages = <<>>
    /\ CrawlIdle
    /\ IndexIdle
    /\ SearchIdle

\* processed_words = self._preprocess_text(text_content)
PreprocessText ==
    /\ tpc = "idle"
    /\ processed_words' = preprocess_text(raw_text)
    /\ tpc' = "text"
    /\ UNCHANGED <<crawlVars, indexVars, searchVars, raw_text>>

\* processed_query = self._preprocess_query(query)
PreprocessQuery ==
    /\ tpc = "idle"
    /\ processed_words' = preprocess_query(raw_text)
    /\ tpc' = "query"
    /\ UNCHANGED <<crawlVars, indexVars, searchVars, raw_text>>

NextTokenize ==
    \/ PreprocessText
    \/ PreprocessQuery

SpecTokenize == InitTokenize /\ [][NextTokenize]_vars

(***************************************************************************)
(* Claims about the tokenizer.                                             *)
(***************************************************************************)

\* The other case of an ASCII letter; any other character as it is.
swap_case(c) ==
    IF \E i \in DOMAIN UpperLetters : UpperLetters[i] = c
    THEN LowerLetters[CHOOSE i \in DOMAIN UpperLetters : UpperLetters[i] = c]
    ELSE IF \E i \in DOMAIN LowerLetters : LowerLetters[i] = c
         THEN UpperLetters[CHOOSE i \in DOMAIN LowerLetters : LowerLetters[i] = c]
         ELSE c

\* Not an ASCII letter, digit or whitespace.
IsPunctuation(c) ==
    c \notin Range(LowerLetters) \cup Range(UpperLetters) \cup DigitChars \cup SpaceChars

RemoveAt(s, i) == SubSeq(s, 1, i - 1) \o SubSeq(s, i + 1, Len(s))

\* The texts one edit away: the case of one letter changed, or one character
\* that is no ASCII letter, digit or whitespace removed.
Variants(s) ==
    {[s EXCEPT ![i] = swap_case(s[i])] : i \in DOMAIN s}
    \cup {RemoveAt(s, i) : i \in {j \in DOMAIN s : IsPunctuation(s[j])}}

\* Every whitespace-separated word of the text is a stopword, whatever its case.
OnlyStopwords(s) ==
    LET ws == split_ws(s, <<>>, <<>>)
    IN \A i \in DOMAIN ws : lower(ws[i]) \in stop_words

\* C11: the terms a preprocessing call returned are those of every text that
\* differs from its input in the case of a letter or by a character that is no
\* ASCII letter, digit or whitespace; none of the terms is a stopword; and a
\* text made only of stopwords yields no term.
C11_CasePunctStop ==
    tpc # "idle" =>
        /\ \A v \in Variants(raw_text) :
              /\ preprocess_text(v) = processed_words
              /\ preprocess_query(v) = processed_words
        /\ \A i \in DOMAIN processed_words : processed_words[i] \notin stop_words
        /\ OnlyStopwords(raw_text) => processed_words = <<>>
====
